---------------------------- MODULE Spec2Model ----------------------------
(***************************************************************************)
(* A model of the cat-sighting API (src/src/main.py, src/src/models.py,    *)
(* src/src/database.py): the cat_sightings table, the request handlers     *)
(* and the date/time parsing they rely on.                                  *)
(*                                                                         *)
(* Time is modelled at a resolution of one hour.  An instant is the number *)
(* of hours since the epoch (UTC); a naive datetime is a number of hours   *)
(* on the local wall clock.  The last instant of a day (23:59:59.999999)   *)
(* is therefore the hour 23 of that day, and an epoch number given by a    *)
(* client counts hours instead of seconds.                                 *)
(***************************************************************************)
EXTENDS Integers, Sequences, FiniteSets, TLC

VARIABLES
    cat_sightings,  \* the rows of table cat_sightings
    id_seq,         \* last value handed out by the table's id sequence
    clock,          \* the current instant (UTC hours)
    tz,             \* the time zone of the server (and database session)
    summary,        \* the summary request in flight: its position and locals
    resp            \* the request completed last and its response

vars == <<cat_sightings, id_seq, clock, tz, summary, resp>>

-----------------------------------------------------------------------------
(* Bounds of the model *)

MaxId == 2          \* ids of the rows the table may hold initially: 1..MaxId
MaxTicks == 2       \* hours the clock may advance (SpecRange)

(* Program constants *)

HoursPerDay == 24
WindowDays == 29
EndOfDayHour == 23
NoonHour == 12

-----------------------------------------------------------------------------
(* datetime values *)

None == [kind |-> "none"]
Aware(t) == [kind |-> "aware", t |-> t]
Naive(w) == [kind |-> "naive", w |-> w]

DayStart(day) == day * HoursPerDay
DayOf(h) == h \div HoursPerDay

(* The zones the server may run in: UTC, and a zone with daylight saving   *)
(* (standard offset -5, -4 from the instant dstAt on).                     *)
Zones ==
    { [name |-> "UTC", std |-> 0, dst |-> 0, dstAt |-> 0],
      [name |-> "America/New_York", std |-> -5, dst |-> -4,
       dstAt |-> DayStart(20) + 7] }

(* the zone of the server whose requests are followed *)
ServerZone == CHOOSE z \in Zones : z.name = "America/New_York"

UtcOffset(z, t) == IF t < z.dstAt THEN z.std ELSE z.dst

(* datetime.fromtimestamp(t): the naive local datetime of instant t *)
fromtimestamp(z, t) == Naive(t + UtcOffset(z, t))

(* datetime.fromtimestamp(t, tz=timezone.utc) *)
fromtimestamp_utc(t) == Aware(t)

(* dt.timestamp(): a naive datetime is read on the local wall clock *)
timestamp(z, dt) ==
    IF dt.kind = "aware" THEN dt.t
    ELSE IF dt.w - z.std < z.dstAt THEN dt.w - z.std ELSE dt.w - z.dst

(* datetime.now() and datetime.now(timezone.utc) *)
now_local(z, t) == fromtimestamp(z, t)
now_utc(t) == Aware(t)

(* dt.replace(hour=h, minute=.., second=.., microsecond=..) *)
replace_time(dt, h) == Naive(DayStart(DayOf(dt.w)) + h)

-----------------------------------------------------------------------------
(* JSON values and query parameters given as date/time text.  A string is  *)
(* described by its syntactic form:                                        *)
(*   empty     ""                                                          *)
(*   garbage   text that is no ISO date or date-time                       *)
(*   date      "YYYY-MM-DD"                                                *)
(*   datetime  "YYYY-MM-DDTHH:MM:SS" followed by a suffix: "", "Z" or an   *)
(*             offset "+HH:00"                                             *)

Null == [j |-> "null"]
Num(n) == [j |-> "num", n |-> n]
EmptyStr == [j |-> "str", form |-> "empty"]
Garbage == [j |-> "str", form |-> "garbage"]
DateStr(d) == [j |-> "str", form |-> "date", day |-> d]
DateTimeStr(d, h, sfx) ==
    [j |-> "str", form |-> "datetime", day |-> d, hour |-> h, suffix |-> sfx]

OffsetHours(sfx) == IF sfx = "+02:00" THEN 2 ELSE 0

Raised == [ok |-> FALSE]
Returned(v) == [ok |-> TRUE, v |-> v]

(* datetime.fromisoformat(s): a date alone is accepted and gives midnight; *)
(* a date-time without offset is naive, one with an offset is aware.  A    *)
(* trailing "Z" is refused before Python 3.11; no caller passes one.       *)
datetime_fromisoformat(s) ==
    IF s.form = "date" THEN Returned(Naive(DayStart(s.day)))
    ELSE IF s.form = "datetime" /\ s.suffix = ""
         THEN Returned(Naive(DayStart(s.day) + s.hour))
    ELSE IF s.form = "datetime" /\ s.suffix # "Z"
         THEN Returned(Aware(DayStart(s.day) + s.hour - OffsetHours(s.suffix)))
    ELSE Raised

(* date.fromisoformat(s): accepts "YYYY-MM-DD" only; returns the day *)
date_fromisoformat(s) ==
    IF s.form = "date" THEN Returned(s.day) ELSE Raised

(* dt.replace(tzinfo=timezone.utc) *)
replace_tzinfo_utc(dt) == Aware(dt.w)

-----------------------------------------------------------------------------
(* CatSightingCreate._parse_spotted_at (main.py:67-100) *)

(* s.strip() followed by the substitution of a trailing "Z" by "+00:00" *)
ReplaceTrailingZ(s) ==
    IF s.form = "datetime" /\ s.suffix = "Z"
    THEN [s EXCEPT !.suffix = "+00:00"]
    ELSE s

_parse_spotted_at(v) ==
    IF v.j = "null" THEN None
    ELSE IF v.j = "num"
         THEN fromtimestamp_utc(v.n)
    ELSE IF v.form = "empty" THEN None
    ELSE LET s == ReplaceTrailingZ(v)
             full == datetime_fromisoformat(s)
             d == date_fromisoformat(s)
         IN  IF full.ok
             THEN (IF full.v.kind = "aware" THEN full.v
                   ELSE replace_tzinfo_utc(full.v))
             ELSE IF d.ok
             THEN Aware(DayStart(d.v) + NoonHour)
             ELSE None

-----------------------------------------------------------------------------
(* _parse_date_range (main.py:201-217).  "not end" holds of an absent      *)
(* parameter and of the empty string.                                      *)

Falsy(p) == p.j = "null" \/ (p.j = "str" /\ p.form = "empty")

EndOfDay(dt) == replace_time(dt, EndOfDayHour)
StartOfDay(dt) == replace_time(dt, 0)

(* a mutant of DefaultStart: a window of 30 days *)
DefaultStart_30Days(z, end_dt) ==
    fromtimestamp(z, timestamp(z, end_dt) - (WindowDays + 1) * HoursPerDay)

(* start absent: datetime.fromtimestamp(end_dt.timestamp() - 29 * 24 * 3600) *)
DefaultStart(z, end_dt) ==
    fromtimestamp(z, timestamp(z, end_dt) - WindowDays * HoursPerDay)

_parse_date_range(z, t, start, end) ==
    LET now == now_local(z, t)
        e == IF Falsy(end) THEN Returned(now) ELSE datetime_fromisoformat(end)
        s == IF Falsy(start) THEN Raised ELSE datetime_fromisoformat(start)
    IN  IF ~e.ok \/ (~Falsy(start) /\ ~s.ok)
        THEN Raised
        ELSE LET end_dt == IF Falsy(end) THEN now ELSE EndOfDay(e.v)
                 start_dt == IF Falsy(start) THEN DefaultStart(z, end_dt)
                             ELSE StartOfDay(s.v)
             IN  [ok |-> TRUE, start_dt |-> start_dt, end_dt |-> end_dt]

-----------------------------------------------------------------------------
(* The table cat_sightings (models.py:5-21) and its queries *)

(* the columns the mapped class CatSighting declares *)
CatSightingColumns ==
    {"id", "lat", "lng", "address", "description", "cat_name", "image_url",
     "source", "created_at", "updated_at"}

(* CheckConstraint cat_sightings_source_check *)
AllowedSources == {"map", "address"}

(* the keyword arguments create_cat_sighting gives the constructor *)
ConstructorKwargs ==
    {"lat", "lng", "address", "description", "cat_name", "image_url",
     "source", "spotted_at"}

(* The declarative constructor raises TypeError for a keyword that is no   *)
(* attribute of the mapped class.                                          *)
ConstructorAccepts(kwargs) == kwargs \subseteq CatSightingColumns

(* server_default=func.now() for created_at and updated_at *)
NewRow(id, source, t) ==
    [id |-> id, source |-> source, created_at |-> t, updated_at |-> t]

(* a mutant of ComesFirst: ascending order *)
ComesFirst_Oldest(r, S) == \A y \in S : r.created_at <= y.created_at

(* ORDER BY created_at DESC: a row comes first when no row of the result  *)
(* was created later; rows of equal created_at come in any order.          *)
ComesFirst(r, S) == \A y \in S : r.created_at >= y.created_at

RECURSIVE order_by_created_at_desc(_)
order_by_created_at_desc(S) ==
    IF S = {} THEN {<<>>}
    ELSE UNION {{<<x>> \o p : p \in order_by_created_at_desc(S \ {x})} :
                x \in {r \in S : ComesFirst(r, S)}}

(* a mutant of RangeFilter: the end bound excluded *)
RangeFilter_ExclusiveEnd(z, rows, start_dt, end_dt) ==
    {r \in rows : /\ r.created_at >= timestamp(z, start_dt)
                  /\ r.created_at < timestamp(z, end_dt)}

(* filter(created_at >= start_dt, created_at <= end_dt): the database      *)
(* reads a naive bound in the zone of its session                          *)
RangeFilter(z, rows, start_dt, end_dt) ==
    {r \in rows : /\ r.created_at >= timestamp(z, start_dt)
                  /\ r.created_at <= timestamp(z, end_dt)}

(* a mutant of group_by_source: count(id) forgotten *)
group_by_source_NoCount(S) == [s \in {r.source : r \in S} |-> 1]

(* GROUP BY source with count(id); the dict built from it *)
group_by_source(S) ==
    [s \in {r.source : r \in S} |-> Cardinality({r \in S : r.source = s})]

(* date(created_at) in the zone of the session *)
func_date(z, t) == DayOf(t + UtcOffset(z, t))

RECURSIVE SortAsc(_)
SortAsc(S) ==
    IF S = {} THEN <<>>
    ELSE LET m == CHOOSE x \in S : \A y \in S : x <= y
         IN  <<m>> \o SortAsc(S \ {m})

(* GROUP BY date(created_at) ORDER BY date(created_at), with count(id) *)
group_by_date(z, S) ==
    LET days == SortAsc({func_date(z, r.created_at) : r \in S})
    IN  [i \in 1..Len(days) |->
            [date |-> days[i],
             count |-> Cardinality({r \in S : func_date(z, r.created_at) = days[i]})]]

-----------------------------------------------------------------------------
(* The requests the model issues *)

ClockStart == DayStart(40) + 15

(* created_at of the rows stored at start-up: the first hour of day 5 and  *)
(* the last hour of day 39 on the wall clock of ServerZone                 *)
Stamps == {DayStart(5) + 5, DayStart(40) + 3}

SourceStr(x) == [j |-> "str", s |-> x]
SourceInputs == {Null, SourceStr(""), SourceStr("address"), SourceStr("bogus")}

SpottedInputs ==
    {Garbage, DateStr(38), DateTimeStr(38, 10, "Z"), Num(DayStart(38) + 3)}

Body(ll, src, sp) == [lat_lng |-> ll, source |-> src, spotted_at |-> sp]

CreateBodies ==
    {Body("numeric", src, Null) : src \in SourceInputs}
    \cup {Body("numeric", Null, sp) : sp \in SpottedInputs}
    \cup {Body("missing", Null, Null)}

StartInputs == {Null, EmptyStr, DateStr(5), Garbage}
EndInputs == {Null, EmptyStr, DateStr(38), DateStr(39), Garbage}

(* the start and end parameters of the report requests *)
RangeInputs ==
    {<<Null, Null>>, <<Null, DateStr(39)>>, <<DateStr(5), DateStr(39)>>,
     <<DateStr(5), DateStr(38)>>, <<Garbage, Null>>, <<Null, Garbage>>}

GetIds == -1..(MaxId + 1)

(* The rows the database holds when the service starts: any rows the      *)
(* table's constraints allow (unique id, source check), none ever updated. *)
InitialTables ==
    UNION {{{NewRow(i, f[i][1], f[i][2]) : i \in P} :
                f \in [P -> AllowedSources \X Stamps]} :
           P \in SUBSET (1..MaxId)}

-----------------------------------------------------------------------------
(* Spec follows the requests served within one hour, the resolution of the *)
(* model, by a server in the zone with daylight saving; SpecRange lets the *)
(* clock advance and the zone vary.                                        *)

Idle == [pc |-> "idle"]

Init ==
    /\ cat_sightings \in InitialTables
    /\ id_seq = MaxId
    /\ clock = ClockStart
    /\ tz = ServerZone
    /\ summary = Idle
    /\ resp = [op |-> "none", status |-> 0]

(* the clock advances *)
Tick ==
    /\ clock < ClockStart + MaxTicks
    /\ clock' = clock + 1
    /\ UNCHANGED <<cat_sightings, id_seq, tz, summary, resp>>

(* GET /api/cats (main.py:129-132) *)
get_cat_sightings ==
    /\ \E rows \in order_by_created_at_desc(cat_sightings) :
           resp' = [op |-> "list", status |-> 200, rows |-> rows]
    /\ UNCHANGED <<cat_sightings, id_seq, clock, tz, summary>>

(* sighting.source or "map" *)
SourceOrMap(src) ==
    IF src.j = "null" THEN "map" ELSE IF src.s = "" THEN "map" ELSE src.s

(* sighting.spotted_at or datetime.now(timezone.utc) *)
SpottedAtOrNow(parsed, t) == IF parsed.kind = "none" THEN now_utc(t) ELSE parsed

(* POST /api/cats (main.py:134-171).  A body without numeric lat and lng   *)
(* is rejected by validation (422) before the handler runs.  The handler   *)
(* builds the row with the constructor, which raises TypeError (500) when  *)
(* it is given a keyword the mapped class does not declare; an INSERT that *)
(* violates the source check raises too, after drawing an id.  The         *)
(* response is recorded with the handler's local spotted_at (main.py:137). *)
(* A summary request in flight notes that a create request ran between its *)
(* queries (overlap), which has no effect on either request.               *)
create_cat_sighting(body) ==
    LET sp == SpottedAtOrNow(_parse_spotted_at(body.spotted_at), clock)
        source == SourceOrMap(body.source)
        row == NewRow(id_seq + 1, source, clock)
        Response(status, rows) ==
            [op |-> "create", status |-> status, req |-> body, rows |-> rows,
             spotted_at |-> IF status = 422 THEN None ELSE sp]
    IN  /\ id_seq < 2 * MaxId          \* the sequence is followed up to 2 * MaxId
        /\ IF body.lat_lng # "numeric"
           THEN /\ resp' = Response(422, <<>>)
                /\ UNCHANGED <<cat_sightings, id_seq>>
           ELSE IF ~ConstructorAccepts(ConstructorKwargs)
           THEN /\ resp' = Response(500, <<>>)
                /\ UNCHANGED <<cat_sightings, id_seq>>
           ELSE IF source \notin AllowedSources
           THEN /\ id_seq' = id_seq + 1
                /\ resp' = Response(500, <<>>)
                /\ UNCHANGED cat_sightings
           ELSE /\ id_seq' = id_seq + 1
                /\ cat_sightings' = cat_sightings \cup {row}
                /\ resp' = Response(201, <<row>>)
        /\ summary' = IF summary.pc = "idle" THEN summary
                       ELSE [summary EXCEPT !.overlap = TRUE]
        /\ UNCHANGED <<clock, tz>>

CreateRequest == \E body \in CreateBodies : create_cat_sighting(body)

(* a mutant of FilterById: the sign of the id dropped *)
FilterById_AbsoluteId(rows, sighting_id) ==
    {r \in rows : r.id = sighting_id \/ r.id = -sighting_id}

(* filter(CatSightingModel.id == sighting_id) *)
FilterById(rows, sighting_id) == {r \in rows : r.id = sighting_id}

(* a mutant of get_cat_sighting: the row fetched is deleted *)
get_cat_sighting_Deleting(sighting_id) ==
    /\ cat_sightings' = {r \in cat_sightings : r.id # sighting_id}
    /\ resp' = [op |-> "get", status |-> 404, id |-> sighting_id, rows |-> <<>>]
    /\ UNCHANGED <<id_seq, clock, tz, summary>>

(* GET /api/cats/{sighting_id} (main.py:173-178) *)
get_cat_sighting(sighting_id) ==
    LET found == FilterById(cat_sightings, sighting_id)
    IN  /\ IF found = {}
           THEN resp' = [op |-> "get", status |-> 404, id |-> sighting_id, rows |-> <<>>]
           ELSE \E row \in found :
                   resp' = [op |-> "get", status |-> 200, id |-> sighting_id,
                            rows |-> <<row>>]
        /\ UNCHANGED <<cat_sightings, id_seq, clock, tz, summary>>

GetRequest == \E sighting_id \in GetIds : get_cat_sighting(sighting_id)

(* POST /api/upload (main.py:180-199): a content type that is no image   *)
(* type is rejected; an extension outside the allowlist becomes ".jpg".    *)
(* The file goes to UPLOAD_DIR under a fresh uuid4 name; no handler reads  *)
(* that directory, and it is not part of the state.                        *)
AllowedExtensions == {".jpg", ".jpeg", ".png", ".gif", ".webp"}

StoredExtension(ext) == IF ext \in AllowedExtensions THEN ext ELSE ".jpg"

upload_image(content_type, ext) ==
    /\ resp' = IF content_type # "image/"
               THEN [op |-> "upload", status |-> 400, ext |-> ""]
               ELSE [op |-> "upload", status |-> 200, ext |-> StoredExtension(ext)]
    /\ UNCHANGED <<cat_sightings, id_seq, clock, tz, summary>>

UploadRequest ==
    \E q \in {<<"text/", ".png">>, <<"image/", ".png">>, <<"image/", ".bmp">>} :
        upload_image(q[1], q[2])

(* GET /api/reports/summary (main.py:219-268).  The handler issues three   *)
(* queries on one session; the engine is created with the database's      *)
(* default isolation (database.py:36-37), under which each statement reads *)
(* the rows committed when it starts.  The three queries are therefore     *)
(* three steps, and other requests may run between them.                   *)

(* _parse_date_range and total = base_q.count() *)
SummaryCount(start, end) ==
    LET range == _parse_date_range(tz, clock, start, end)
        req == [start |-> start, end |-> end]
    IN  /\ summary.pc = "idle"
        /\ IF ~range.ok
           THEN /\ resp' = [op |-> "summary", status |-> 500, req |-> req]
                /\ UNCHANGED summary
           ELSE /\ summary' =
                     [pc |-> "counted", overlap |-> FALSE,
                      start_dt |-> range.start_dt, end_dt |-> range.end_dt,
                      total |-> Cardinality(RangeFilter(tz, cat_sightings,
                                              range.start_dt, range.end_dt))]
                /\ UNCHANGED resp
        /\ UNCHANGED <<cat_sightings, id_seq, clock, tz>>

SummaryRequest ==
    \E q \in RangeInputs : SummaryCount(q[1], q[2])

(* src_rows and by_source *)
SummaryBySource ==
    /\ summary.pc = "counted"
    /\ summary' =
          [pc |-> "grouped", overlap |-> summary.overlap,
           start_dt |-> summary.start_dt, end_dt |-> summary.end_dt,
           total |-> summary.total,
           by_source |-> group_by_source(RangeFilter(tz, cat_sightings,
                                            summary.start_dt, summary.end_dt))]
    /\ UNCHANGED <<cat_sightings, id_seq, clock, tz, resp>>

(* day_rows, per_day and the response *)
SummaryPerDay ==
    /\ summary.pc = "grouped"
    /\ resp' = [op |-> "summary", status |-> 200, overlap |-> summary.overlap,
                total |-> summary.total, by_source |-> summary.by_source,
                per_day |-> group_by_date(tz, RangeFilter(tz, cat_sightings,
                                              summary.start_dt, summary.end_dt)),
                start |-> summary.start_dt, end |-> summary.end_dt]
    /\ summary' = Idle
    /\ UNCHANGED <<cat_sightings, id_seq, clock, tz>>

(* GET /api/reports/export (main.py:270-326): one query *)
export_reports_csv(start, end) ==
    LET range == _parse_date_range(tz, clock, start, end)
        req == [start |-> start, end |-> end]
    IN  /\ IF ~range.ok
           THEN resp' = [op |-> "export", status |-> 500, req |-> req, rows |-> <<>>]
           ELSE \E rows \in order_by_created_at_desc(
                               RangeFilter(tz, cat_sightings,
                                           range.start_dt, range.end_dt)) :
                   resp' = [op |-> "export", status |-> 200,
                            rows |-> rows, start |-> range.start_dt,
                            end |-> range.end_dt]
        /\ UNCHANGED <<cat_sightings, id_seq, clock, tz, summary>>

ExportRequest ==
    \E q \in RangeInputs : export_reports_csv(q[1], q[2])

Next ==
    \/ get_cat_sightings
    \/ CreateRequest
    \/ GetRequest
    \/ UploadRequest
    \/ SummaryRequest
    \/ SummaryBySource
    \/ SummaryPerDay
    \/ ExportRequest

Spec == Init /\ [][Next]_vars

(* _parse_date_range on its own: the clock advances, and the function is  *)
(* applied to any pair of parameters in any of the zones.                  *)
InitRange ==
    /\ cat_sightings = {}
    /\ id_seq = 0
    /\ clock = ClockStart
    /\ tz \in Zones
    /\ summary = Idle
    /\ resp = [op |-> "none", status |-> 0]

ParseDateRange ==
    /\ \E start \in StartInputs, end \in EndInputs :
          resp' = [op |-> "range", status |-> 0, start |-> start, end |-> end,
                   now |-> clock,
                   result |-> _parse_date_range(tz, clock, start, end)]
    /\ UNCHANGED <<cat_sightings, id_seq, clock, tz, summary>>

NextRange == Tick \/ ParseDateRange

SpecRange == InitRange /\ [][NextRange]_vars

-----------------------------------------------------------------------------
(* Helpers of the properties *)

RECURSIVE SumOver(_, _)
SumOver(f, D) ==
    IF D = {} THEN 0
    ELSE LET x == CHOOSE y \in D : TRUE IN f[x] + SumOver(f, D \ {x})

SumOfValues(f) == SumOver(f, DOMAIN f)
SumOfCounts(per_day) == SumOver([i \in DOMAIN per_day |-> per_day[i].count], DOMAIN per_day)

RowsOf(seq) == {seq[i] : i \in DOMAIN seq}

ValidCreate(body) ==
    /\ body.lat_lng = "numeric"
    /\ \/ body.source.j = "null"
       \/ body.source.s \in AllowedSources

CreateAnswered == resp.op = "create"
SummaryReturned == resp.op = "summary" /\ resp.status = 200

-----------------------------------------------------------------------------
(* C1: every valid POST /api/cats succeeds (201), persists one new row and *)
(* returns that row, whose created_at equals its updated_at.               *)
C1_ValidCreatePersists ==
    (CreateAnswered /\ ValidCreate(resp.req)) =>
        /\ resp.status = 201
        /\ Len(resp.rows) = 1
        /\ resp.rows[1] \in cat_sightings
        /\ resp.rows[1].created_at = resp.rows[1].updated_at

(* C2: every stored row has an allowed source; a create that omits source  *)
(* stores 'map'; a create whose source is given and not allowed (the empty *)
(* string included) fails and adds no row.                                 *)
C2_SourceDefaultsAndRejects ==
    /\ \A r \in cat_sightings : r.source \in AllowedSources
    /\ (CreateAnswered /\ resp.req.lat_lng = "numeric"
            /\ resp.req.source.j = "null") =>
          /\ resp.status = 201
          /\ Len(resp.rows) = 1
          /\ resp.rows[1].source = "map"
          /\ resp.rows[1] \in cat_sightings
    /\ (CreateAnswered /\ resp.req.source.j = "str"
            /\ resp.req.source.s \notin AllowedSources) =>
          resp.status # 201

(* The parsing policy of spotted_at as the specification states it *)
SpottedAtPolicy(v, t) ==
    IF v.j = "null" THEN Aware(t)
    ELSE IF v.j = "num" THEN Aware(v.n)
    ELSE IF v.form = "date" THEN Aware(v.day * 24 + 12)
    ELSE IF v.form = "datetime"
         THEN Aware(v.day * 24 + v.hour - OffsetHours(v.suffix))
    ELSE Aware(t)

(* C3: the spotted_at value a create hands to storage follows the parsing  *)
(* policy for every input: a bare date is 12:00 UTC on that date, a full   *)
(* date-time is that instant, a number is that epoch instant, anything     *)
(* else the current UTC time.                                              *)
C3_SpottedAtFollowsPolicy ==
    (CreateAnswered /\ resp.req.lat_lng = "numeric") =>
        resp.spotted_at = SpottedAtPolicy(resp.req.spotted_at, clock)

IsGarbage(p) == p.j = "str" /\ p.form = "garbage"

(* C4: a date/time input that cannot be parsed never makes the request     *)
(* fail: an unparseable spotted_at is not rejected and the handler uses    *)
(* the current time for it, and a summary or export request completes      *)
(* whatever its start and end are.                                         *)
C4_UnparseableNeverFatal ==
    /\ (CreateAnswered /\ ValidCreate(resp.req)
            /\ IsGarbage(resp.req.spotted_at)) =>
          (resp.status # 422 /\ resp.spotted_at = Aware(clock))
    /\ resp.op \in {"summary", "export"} => resp.status = 200

-----------------------------------------------------------------------------
(* Properties of _parse_date_range, under SpecRange *)

RangeResolved == resp.op = "range" /\ resp.result.ok
IsDate(p) == p.j = "str" /\ p.form = "date"

(* what the claim and its amendment agree on: the resolved end, and a      *)
(* present start                                                           *)
ResolvedBounds ==
    /\ resp.end.j = "null" =>
          resp.result.end_dt = Naive(resp.now + UtcOffset(tz, resp.now))
    /\ IsDate(resp.end) =>
          resp.result.end_dt = Naive(resp.end.day * 24 + 23)
    /\ IsDate(resp.start) =>
          resp.result.start_dt = Naive(resp.start.day * 24)

(* C5 as stated: the resolved end is now (absent) or the last instant of   *)
(* the day, a present start the first instant of its day, and an absent    *)
(* start 29 days before the resolved end at the same time of day.          *)
C5_StartKeepsTimeOfDay ==
    RangeResolved =>
        /\ ResolvedBounds
        /\ resp.start.j = "null" =>
              resp.result.start_dt = Naive(resp.result.end_dt.w - 29 * 24)

(* C5 as amended: an absent start is the instant exactly 29 * 24 hours     *)
(* before the resolved end; its local time of day is that of the end when  *)
(* the zone's UTC offset is the same at both instants.                     *)
C5_StartIs29DaysOfHoursBeforeEnd ==
    RangeResolved =>
        /\ ResolvedBounds
        /\ resp.start.j = "null" =>
              LET s == timestamp(tz, resp.result.start_dt)
                  e == timestamp(tz, resp.result.end_dt)
              IN  /\ resp.result.start_dt.kind = "naive"
                  /\ s = e - 29 * 24
                  /\ UtcOffset(tz, s) = UtcOffset(tz, e) =>
                        resp.result.start_dt.w = resp.result.end_dt.w - 29 * 24

(* neither parameter given, in a zone whose offset changed within the      *)
(* window                                                                  *)
C5_Witness ==
    /\ RangeResolved
    /\ resp.start.j = "null" /\ resp.end.j = "null"
    /\ UtcOffset(tz, timestamp(tz, resp.result.start_dt)) # UtcOffset(tz, resp.now)

-----------------------------------------------------------------------------
(* Properties of the read requests, under Spec *)

InRange(r, start_dt, end_dt) ==
    /\ timestamp(tz, start_dt) <= r.created_at
    /\ r.created_at <= timestamp(tz, end_dt)

LocalDate(r) == (r.created_at + UtcOffset(tz, r.created_at)) \div 24

(* C6: the summary's total is the number of rows with                      *)
(* start <= created_at <= end, by_source counts those rows per source, and *)
(* per_day lists each date holding such a row once, in ascending order,    *)
(* with its count; both sets of counts sum to total and none is zero.      *)
C6_SummaryCounts ==
    SummaryReturned =>
        LET M == {r \in cat_sightings : InRange(r, resp.start, resp.end)}
            pd == resp.per_day
        IN  /\ resp.total = Cardinality(M)
            /\ DOMAIN resp.by_source = {r.source : r \in M}
            /\ \A src \in DOMAIN resp.by_source :
                  resp.by_source[src] = Cardinality({r \in M : r.source = src})
            /\ SumOfValues(resp.by_source) = resp.total
            /\ {pd[i].date : i \in DOMAIN pd} = {LocalDate(r) : r \in M}
            /\ \A i \in DOMAIN pd :
                  /\ pd[i].count = Cardinality({r \in M : LocalDate(r) = pd[i].date})
                  /\ pd[i].count > 0
                  /\ \A k \in DOMAIN pd : i < k => pd[i].date < pd[k].date
            /\ SumOfCounts(pd) = resp.total

(* a summary that counts a row lying on the end of its range and leaves a  *)
(* stored row out                                                          *)
C6_Witness ==
    /\ SummaryReturned
    /\ resp.total >= 1
    /\ resp.total < Cardinality(cat_sightings)
    /\ \E r \in cat_sightings : r.created_at = timestamp(tz, resp.end)

(* C7: the list holds every stored row exactly once, most recently created *)
(* first.                                                                  *)
C7_ListAllNewestFirst ==
    resp.op = "list" =>
        /\ RowsOf(resp.rows) = cat_sightings
        /\ Len(resp.rows) = Cardinality(cat_sightings)
        /\ \A i \in 1..(Len(resp.rows) - 1) :
              resp.rows[i].created_at >= resp.rows[i + 1].created_at

C7_Witness ==
    /\ resp.op = "list"
    /\ Len(resp.rows) >= 2
    /\ resp.rows[1].created_at > resp.rows[2].created_at

UniqueIds(rows) == \A r1, r2 \in rows : r1.id = r2.id => r1 = r2

(* C8: no request removes or changes a stored row, no two rows share an    *)
(* id, and only a create request adds a row.                               *)
C8_RowsOnlyGrow ==
    [][/\ cat_sightings \subseteq cat_sightings'
       /\ UniqueIds(cat_sightings')
       /\ cat_sightings' # cat_sightings => resp'.op = "create"]_vars

(* requests have been answered, the last a create, and rows are stored *)
C8_Witness ==
    /\ CreateAnswered
    /\ Cardinality(cat_sightings) >= 2

(* C9: get-by-id answers with the stored row of that id, or 404 when no    *)
(* row has it (0 and negative ids included), and leaves the rows as they   *)
(* are.                                                                    *)
C9_GetByIdOr404 ==
    [][(resp'.op = "get" /\ resp' # resp) =>
          /\ cat_sightings' = cat_sightings
          /\ IF \E r \in cat_sightings : r.id = resp'.id
             THEN /\ resp'.status = 200
                  /\ Len(resp'.rows) = 1
                  /\ resp'.rows[1] \in cat_sightings
                  /\ resp'.rows[1].id = resp'.id
             ELSE resp'.status = 404 /\ resp'.rows = <<>>]_vars

C9_Witness ==
    /\ resp.op = "get"
    /\ resp.status = 404
    /\ resp.id <= 0
    /\ cat_sightings # {}

=============================================================================
